---------------------------- MODULE Spec2Model ----------------------------
(***************************************************************************)
(* A model of the C shims of SwiftPQ:                                      *)
(*   Sources/CLibECPG/shim.h      date / interval / timestamp wrappers     *)
(*                                around libpgtypes (ECPG)                 *)
(*   Sources/CPostgreSQL/shim.c   numeric sign predicates                  *)
(*                                                                         *)
(* The libpgtypes routines the shims call are modelled at the call site by *)
(* what the library does there (date2j / j2date arithmetic in C int and    *)
(* unsigned int, errno-based error reporting, malloc'ed results).          *)
(* Target data model: LP64 (int 32 bits, long 64 bits, two's complement).  *)
(***************************************************************************)
EXTENDS Integers, Sequences, FiniteSets, TLC

VARIABLES
    errno,      \* the thread's errno
    pgDate,     \* the caller's int32_t result object of the date calls
    ymd,        \* the caller's _SwiftPQ_PGTYPES_YMD object
    dayIn,      \* the caller's DayCount argument of date_to_ymd
    dstep,      \* position of the caller in the date conversion
    intvl,      \* the caller's _SwiftPQ_PGTYPES_Interval result object
    ts,         \* the caller's int64_t result object of the timestamp parse
    heap,       \* live native allocations: block id -> kind
    owned,      \* block ids the caller holds (returned C strings)
    last,       \* what the last shim call was given and what it returned
    status,     \* "running", or how the process died
    signFlag,   \* the flag handed to the numeric sign predicates
    signSeen    \* the answers obtained for signFlag so far

vars == <<errno, pgDate, ymd, dayIn, dstep, intvl, ts, heap, owned, last,
          status, signFlag, signSeen>>

dateVars  == <<pgDate, ymd, dayIn, dstep>>
codecVars == <<errno, intvl, ts, heap, owned, last>>
signVars  == <<signFlag, signSeen>>

---------------------------------------------------------------------------
(* Bounds of the model.                                                    *)

\* half-width of the window of day counts taken around each anchor
Span == 2
\* day counts 0 - Window .. Window around the epoch are all taken
Window == 800
\* number of native blocks the allocator can hand out before it is exhausted
MaxBlocks == 2
\* flags -FlagSpan .. FlagSpan around each sign constant are taken
FlagSpan == 6

---------------------------------------------------------------------------
(* C integer arithmetic.  A C int / int32_t is its value; an unsigned int  *)
(* is held as the int with the same 32 bits.                               *)

MaxInt32 == 2147483647
MinInt32 == (0 - MaxInt32) - 1

Int32Add(a, b) ==
    \* a + b modulo 2^32; ov is the C signed overflow
    IF b > 0 /\ a > MaxInt32 - b
      THEN [v |-> ((a - MaxInt32) - 1) + ((b - MaxInt32) - 1), ov |-> TRUE]
    ELSE IF b < 0 /\ a < MinInt32 - b
      THEN [v |-> ((a + MaxInt32) + 1) + ((b + MaxInt32) + 1), ov |-> TRUE]
    ELSE [v |-> a + b, ov |-> FALSE]

Int32Sub(a, b) ==
    \* a - b modulo 2^32
    IF b > 0 /\ a < MinInt32 + b
      THEN [v |-> (((a + MaxInt32) + 1) - b) + MaxInt32 + 1, ov |-> TRUE]
    ELSE IF b < 0 /\ a > MaxInt32 + b
      THEN [v |-> (((a - MaxInt32) - 1) - b) - MaxInt32 - 1, ov |-> TRUE]
    ELSE [v |-> a - b, ov |-> FALSE]

\* 2^31 = q*k + r for a divisor k >= 2
Pow31Quot(k) == (MaxInt32 \div k) + (IF MaxInt32 % k = k - 1 THEN 1 ELSE 0)
Pow31Rem(k)  == ((MaxInt32 % k) + 1) % k

\* the low 32 bits of a * k for 0 <= k < 2^18, from 16-bit halves of a and
\* 9-bit halves of k
Int32MulBits(a, k) ==
    LET al == a % 65536
        ah == a \div 65536
        k0 == k % 512
        k1 == k \div 512
        t0 == al * k0
        t1 == al * k1
        lo == (t0 % 65536) + ((t1 % 128) * 512)
        hi == (t0 \div 65536) + (ah * k0) + (t1 \div 128)
                + (((ah * k1) % 128) * 512) + (lo \div 65536)
        h  == hi % 65536
    IN  (IF h >= 32768 THEN h - 65536 ELSE h) * 65536 + (lo % 65536)

Int32Mul(a, k) ==
    \* a * k modulo 2^32 for a constant 0 <= k < 2^18
    [v  |-> Int32MulBits(a, k),
     ov |-> /\ k >= 2
            /\ (a > MaxInt32 \div k \/ a < 0 - Pow31Quot(k))]

\* C's / and % truncate toward zero
CDiv(a, b) == IF a >= 0 THEN a \div b ELSE 0 - ((0 - a) \div b)

\* unsigned division / remainder of the 32 bits u by a constant k >= 2
UDiv(u, k) ==
    IF u >= 0 THEN u \div k
    ELSE LET a == (u + MaxInt32) + 1
         IN  (a \div k) + Pow31Quot(k) + (((a % k) + Pow31Rem(k)) \div k)

UMod(u, k) ==
    IF u >= 0 THEN u % k
    ELSE LET a == (u + MaxInt32) + 1 IN ((a % k) + Pow31Rem(k)) % k

\* unsigned arithmetic wraps and is never an overflow
UAdd(a, b) == Int32Add(a, b).v
USub(a, b) == Int32Sub(a, b).v
UMul(a, k) == Int32Mul(a, k).v

---------------------------------------------------------------------------
(* libpgtypes calendar arithmetic, as reached through PGTYPESdate_mdyjul   *)
(* and PGTYPESdate_julmdy.                                                 *)

\* int date2j(int y, int m, int d): Julian day of a calendar date, in C int
date2j(y0, m0, d) ==
    LET m  == IF m0 > 2 THEN Int32Add(m0, 1) ELSE Int32Add(m0, 13)
        y  == IF m0 > 2 THEN Int32Add(y0, 4800) ELSE Int32Add(y0, 4799)
        century == CDiv(y.v, 100)
        j1 == Int32Mul(y.v, 365)
        j2 == Int32Sub(j1.v, 32167)
        \* julian += y / 4 - century + century / 4;
        t3 == CDiv(y.v, 4) - century + CDiv(century, 4)
        j3 == Int32Add(j2.v, t3)
        \* julian += 7834 * m / 256 + d;
        p4 == Int32Mul(m.v, 7834)
        t4 == Int32Add(CDiv(p4.v, 256), d)
        j4 == Int32Add(j3.v, t4.v)
    IN  [v  |-> j4.v,
         ov |-> m.ov \/ y.ov \/ j1.ov \/ j2.ov \/ j3.ov \/ p4.ov \/ t4.ov \/ j4.ov]

\* date2j(2000, 1, 1), the epoch of the date type
EpochJDate == date2j(2000, 1, 1).v

\* void j2date(int jd, int *year, int *month, int *day), in unsigned int
j2date(jd) ==
    LET julian1 == UAdd(jd, 32044)
        quad1   == UDiv(julian1, 146097)
        extra   == UAdd(UMul(USub(julian1, UMul(quad1, 146097)), 4), 3)
        julian2 == UAdd(julian1,
                        UAdd(UAdd(60, UMul(quad1, 3)), UDiv(extra, 146097)))
        quad2   == UDiv(julian2, 1461)
        julian3 == USub(julian2, UMul(quad2, 1461))
        y1      == UDiv(UMul(julian3, 4), 1461)
        julian4 == (IF y1 # 0 THEN UMod(UAdd(julian3, 305), 365)
                              ELSE UMod(UAdd(julian3, 306), 366)) + 123
        y2      == UAdd(y1, UMul(quad2, 4))
        quad3   == UDiv(UMul(julian4, 2141), 65536)
    IN  [year  |-> Int32Sub(y2, 4800).v,
         month |-> UMod(UAdd(quad3, 10), 12) + 1,
         day   |-> USub(julian4, UDiv(UMul(quad3, 7834), 256))]

\* void PGTYPESdate_mdyjul(int *mdy, date *jdate); mdy = <<month, day, year>>
PGTYPESdate_mdyjul(mdy) ==
    LET j == date2j(mdy[3], mdy[1], mdy[2])
        r == Int32Sub(j.v, EpochJDate)
    IN  [v |-> r.v, ov |-> j.ov \/ r.ov]

\* void PGTYPESdate_julmdy(date jd, int *mdy): the long sum jd + epoch is
\* converted to int (it keeps the low 32 bits)
PGTYPESdate_julmdy(jd) ==
    LET c == j2date(Int32Add(jd, EpochJDate).v)
    IN  <<c.month, c.day, c.year>>

---------------------------------------------------------------------------
(* Inputs of the date conversions.                                         *)

\* day counts next to the edges of int32, of j2date's unsigned range, of
\* date2j's int range and of the calendar's irregular days
DayAnchors ==
    { MinInt32 + Span, 0 - 2571842, 0 - 2483590, 0 - 2451545, 0 - 730120,
      0 - 36525, 59, 8780, 2145032102, MaxInt32 - Span }

DayCounts ==
    { a + i : a \in DayAnchors, i \in (0 - Span) .. Span }
      \cup ((0 - Window) .. Window)

\* calendar dates a caller hands to date_from_ymd
GridDates ==
    [ year  : {0 - 4712, 0 - 4000, 0 - 1, 0, 1, 1600, 1900, 1999, 2000, 2024,
               2100, 5874897},
      month : {1, 2, 3, 12},
      day   : {1, 15, 28} ]

EdgeDates ==
    { [year |-> 0 - 4713, month |-> 11, day |-> 24],
      [year |-> 1999,     month |-> 12, day |-> 31],
      [year |-> 2000,     month |-> 2,  day |-> 29],
      [year |-> 5874898,  month |-> 6,  day |-> 3],
      [year |-> 5881610,  month |-> 7,  day |-> 11],
      [year |-> 5881610,  month |-> 7,  day |-> 12],
      [year |-> 6000000,  month |-> 1,  day |-> 1] }

CalendarDates == GridDates \cup EdgeDates

\* a zero-initialised _SwiftPQ_PGTYPES_YMD
ZeroYMD == [year |-> 0, month |-> 0, day |-> 0]

---------------------------------------------------------------------------
(* Sources/CLibECPG/shim.h: the date conversions.                          *)

\* mutant: the array filled in year, month, day order
mdy_of_ymd_in_ymd_order(s) == <<s.year, s.month, s.day>>

\* int mdy[3] = {ymd->month, ymd->day, ymd->year};
mdy_of_ymd(s) == <<s.month, s.day, s.year>>

\* mutant: month and day read from each other's slot
ymd_of_mdy_swapped(mdy) == [year |-> mdy[3], month |-> mdy[2], day |-> mdy[1]]

\* result->year = mdy[2]; result->month = mdy[0]; result->day = mdy[1];
ymd_of_mdy(mdy) == [year |-> mdy[3], month |-> mdy[1], day |-> mdy[2]]

\* what a signed overflow (undefined behaviour) can do in a build: wrap
\* around, or trap (-ftrapv, sanitizers)
OverflowOutcomes == {"wrap", "trap"}

\* _SwiftPQ_PGTYPES_date_from_ymd(ymd, result): no return value, no error
SwiftPQ_PGTYPES_date_from_ymd ==
    /\ status = "running"
    /\ dstep \in {"have_ymd", "converted"}
    /\ LET r == PGTYPESdate_mdyjul(mdy_of_ymd(ymd))
       IN  \E o \in (IF r.ov THEN OverflowOutcomes ELSE {"exact"}) :
             IF o = "trap"
               THEN /\ status' = "trapped"
                    /\ UNCHANGED pgDate
               ELSE /\ pgDate' = r.v          \* *result = (int32_t)pgDate;
                    /\ UNCHANGED status
    /\ dstep' = (IF dstep = "converted" THEN "done" ELSE "direct")
    /\ UNCHANGED <<ymd, dayIn>>
    /\ UNCHANGED codecVars
    /\ UNCHANGED signVars

\* _SwiftPQ_PGTYPES_date_to_ymd(pgDate, result)
SwiftPQ_PGTYPES_date_to_ymd ==
    /\ status = "running"
    /\ dstep = "have_day"
    /\ ymd' = ymd_of_mdy(PGTYPESdate_julmdy(dayIn))
    /\ dstep' = "converted"
    /\ UNCHANGED <<pgDate, dayIn, status>>
    /\ UNCHANGED codecVars
    /\ UNCHANGED signVars

---------------------------------------------------------------------------
(* 64-bit microsecond counts.  An int64_t number of microseconds is held   *)
(* exactly as day * 86400000000 + sec * 1000000 + usec with                *)
(* 0 <= sec < 86400 and 0 <= usec < 1000000.                               *)

SecsPerDay == 86400
UsecsPerSec == 1000000

Usecs(day, sec, usec) ==
    LET s1 == sec + (usec \div UsecsPerSec)
    IN  [day  |-> day + (s1 \div SecsPerDay),
         sec  |-> s1 % SecsPerDay,
         usec |-> usec % UsecsPerSec]

UsecsLess(a, b) ==
    \/ a.day < b.day
    \/ a.day = b.day /\ a.sec < b.sec
    \/ a.day = b.day /\ a.sec = b.sec /\ a.usec < b.usec

\* INT64_MAX = 9223372036854775807 and INT64_MIN, as microsecond counts
Int64Max == [day |-> 106751991, sec |-> 14454, usec |-> 775807]
Int64Min == [day |-> 0 - 106751992, sec |-> 71945, usec |-> 224192]
\* 2^64 microseconds
Pow64Usecs == [day |-> 213503982, sec |-> 28909, usec |-> 551616]

FitsInt64(t) == ~UsecsLess(Int64Max, t) /\ ~UsecsLess(t, Int64Min)

\* t minus k times 2^64 microseconds
UsecsLessPow64(t, k) ==
    Usecs(t.day - k * Pow64Usecs.day, t.sec - k * Pow64Usecs.sec,
          t.usec - k * Pow64Usecs.usec)

\* the low 64 bits of t, as a signed value
Int64Wrap(t) ==
    LET r == UsecsLessPow64(t, t.day \div Pow64Usecs.day)
    IN  IF UsecsLess(Int64Max, r) THEN UsecsLessPow64(r, 1)
        ELSE IF UsecsLess(r, Int64Min) THEN UsecsLessPow64(r, 0 - 1)
        ELSE r

ZeroUsecs == Usecs(0, 0, 0)

---------------------------------------------------------------------------
(* Constants of the headers the shims include.                             *)

NullPtr == 0
ENOMEM == 12
PGTYPES_DATE_BAD_DATE == 310
PGTYPES_TS_BAD_TIMESTAMP == 320
PGTYPES_INTVL_BAD_INTERVAL == 330

---------------------------------------------------------------------------
(* The libpgtypes parsers, on the texts the callers of the model pass.     *)

isleap(y) == (y % 4 = 0) /\ ((y % 100 # 0) \/ (y % 400 = 0))

day_tab(y, m) ==
    IF m = 2 THEN (IF isleap(y) THEN 29 ELSE 28)
    ELSE IF m \in {4, 6, 9, 11} THEN 30 ELSE 31

ValidDate(c) ==
    /\ c.month \in 1 .. 12
    /\ c.day >= 1
    /\ c.day <= day_tab(c.year, c.month)

DateTexts == {"2000-01-01", "2024-01-15", "2024-13-40", "not a date"}

\* the year, month and day fields the date grammar finds, if it matches
DateFields(t) ==
    CASE t = "2000-01-01" -> <<[year |-> 2000, month |-> 1,  day |-> 1]>>
      [] t = "2024-01-15" -> <<[year |-> 2024, month |-> 1,  day |-> 15]>>
      [] t = "2024-13-40" -> <<[year |-> 2024, month |-> 13, day |-> 40]>>
      [] OTHER            -> <<>>

\* date PGTYPESdate_from_asc(char *str, char **endptr): on failure errno is
\* PGTYPES_DATE_BAD_DATE and INT_MIN is returned; err = 0 leaves errno alone
PGTYPESdate_from_asc(t) ==
    LET f == DateFields(t)
    IN  IF f = <<>> \/ ~ValidDate(f[1])
          THEN [err |-> PGTYPES_DATE_BAD_DATE, val |-> MinInt32]
          ELSE [err |-> 0,
                val |-> date2j(f[1].year, f[1].month, f[1].day).v - EpochJDate]

TimestampTexts ==
    {"2000-01-01 00:00:00", "1999-12-31 23:59:59.5", "300000-01-01 00:00:00",
     "2024-01-15 25:00:00", "not a timestamp"}

\* the struct tm and fractional second the timestamp grammar finds
TimestampFields(t) ==
    CASE t = "2000-01-01 00:00:00" ->
           <<[year |-> 2000, month |-> 1, day |-> 1,
              hour |-> 0, min |-> 0, sec |-> 0, fsec |-> 0]>>
      [] t = "1999-12-31 23:59:59.5" ->
           <<[year |-> 1999, month |-> 12, day |-> 31,
              hour |-> 23, min |-> 59, sec |-> 59, fsec |-> 500000]>>
      [] t = "300000-01-01 00:00:00" ->
           <<[year |-> 300000, month |-> 1, day |-> 1,
              hour |-> 0, min |-> 0, sec |-> 0, fsec |-> 0]>>
      [] t = "2024-01-15 25:00:00" ->
           <<[year |-> 2024, month |-> 1, day |-> 15,
              hour |-> 25, min |-> 0, sec |-> 0, fsec |-> 0]>>
      [] OTHER -> <<>>

ValidTime(f) == f.hour \in 0 .. 23 /\ f.min \in 0 .. 59 /\ f.sec \in 0 .. 59

\* tm2timestamp: days since the epoch times USECS_PER_DAY plus the time of
\* day; a value outside int64_t is refused
tm2timestamp(f) ==
    Usecs(date2j(f.year, f.month, f.day).v - EpochJDate,
          (f.hour * 60 + f.min) * 60 + f.sec, f.fsec)

\* timestamp PGTYPEStimestamp_from_asc(char *str, char **endptr): every
\* failure sets errno to PGTYPES_TS_BAD_TIMESTAMP and returns 0
PGTYPEStimestamp_from_asc(t) ==
    LET f == TimestampFields(t)
    IN  IF f = <<>> \/ ~ValidDate(f[1]) \/ ~ValidTime(f[1])
          THEN [err |-> PGTYPES_TS_BAD_TIMESTAMP, val |-> ZeroUsecs]
        ELSE IF ~FitsInt64(tm2timestamp(f[1]))
          THEN [err |-> PGTYPES_TS_BAD_TIMESTAMP, val |-> ZeroUsecs]
        ELSE [err |-> 0, val |-> tm2timestamp(f[1])]

\* how a timestamp text relates to the grammar and to the range
TimestampTextClass(t) ==
    LET f == TimestampFields(t)
    IN  IF f = <<>> \/ ~ValidDate(f[1]) \/ ~ValidTime(f[1]) THEN "unrecognized"
        ELSE IF ~FitsInt64(tm2timestamp(f[1])) THEN "out_of_range"
        ELSE "valid"

IntervalTexts ==
    {"1 year 2 mons", "-1 days 04:05:06", "178956971 years",
     "200000000 days", "not an interval"}

\* the struct tm and fractional second the interval grammar finds
IntervalFields(t) ==
    CASE t = "1 year 2 mons" ->
           <<[year |-> 1, mon |-> 2, mday |-> 0,
              hour |-> 0, min |-> 0, sec |-> 0, fsec |-> 0]>>
      [] t = "-1 days 04:05:06" ->
           <<[year |-> 0, mon |-> 0, mday |-> 0 - 1,
              hour |-> 4, min |-> 5, sec |-> 6, fsec |-> 0]>>
      [] t = "178956971 years" ->
           <<[year |-> 178956971, mon |-> 0, mday |-> 0,
              hour |-> 0, min |-> 0, sec |-> 0, fsec |-> 0]>>
      [] t = "200000000 days" ->
           <<[year |-> 0, mon |-> 0, mday |-> 200000000,
              hour |-> 0, min |-> 0, sec |-> 0, fsec |-> 0]>>
      [] OTHER -> <<>>

\* tm_year * MONTHS_PER_YEAR + tm_mon lies in INT_MIN .. INT_MAX
MonthsFit(f) ==
    /\ f.year <= (MaxInt32 - f.mon) \div 12
    /\ f.year + 1 > ((MinInt32 + 11) - f.mon) \div 12

\* the microseconds of the day and time fields, as an exact number
IntervalUsecs(f) ==
    Usecs(f.mday, (f.hour * 60 + f.min) * 60 + f.sec, f.fsec)

\* tm2interval: the months are range-checked (-1 when they do not fit in an
\* int); span->time is computed in int64_t with no check, so ov is a signed
\* overflow
tm2interval(f) ==
    IF ~MonthsFit(f)
      THEN [rc |-> 0 - 1, month |-> 0, time |-> ZeroUsecs, ov |-> FALSE]
      ELSE [rc |-> 0, month |-> f.year * 12 + f.mon,
            time |-> Int64Wrap(IntervalUsecs(f)),
            ov |-> ~FitsInt64(IntervalUsecs(f))]

---------------------------------------------------------------------------
(* The native heap.  heap[p] is "free", "interval" or "cstring".           *)

Blocks == 1 .. MaxBlocks

FreeBlocks(h) == {p \in Blocks : h[p] = "free"}

\* what an allocation can return: NULL, or the next free block
AllocResults(h) ==
    {NullPtr} \cup
      (IF FreeBlocks(h) = {} THEN {}
       ELSE {CHOOSE p \in FreeBlocks(h) : \A q \in FreeBlocks(h) : p <= q})

Take(h, p, kind) == IF p = NullPtr THEN h ELSE [h EXCEPT ![p] = kind]

\* mutant: the interval structure is not released
interval_free_omitted(h, p) == h

\* void PGTYPESinterval_free(interval *intvl)
PGTYPESinterval_free(h, p) == [h EXCEPT ![p] = "free"]

\* void PGTYPESchar_free(char *ptr)
PGTYPESchar_free(h, p) == [h EXCEPT ![p] = "free"]

\* interval *PGTYPESinterval_from_asc(char *str, char **endptr), with p what
\* its allocation returns: the grammar is checked first (no allocation on a
\* mismatch), then the result is allocated, then tm2interval fills it; on
\* every failure NULL is returned, with errno PGTYPES_INTVL_BAD_INTERVAL or,
\* when the allocation failed, ENOMEM; err = 0 leaves errno alone
PGTYPESinterval_from_asc(t, p) ==
    LET f == IntervalFields(t)
        none == [raw |-> NullPtr, month |-> 0, time |-> ZeroUsecs,
                 ov |-> FALSE, nomem |-> FALSE]
    IN  IF f = <<>>
          THEN none @@ [err |-> PGTYPES_INTVL_BAD_INTERVAL]
        ELSE IF p = NullPtr
          THEN [none EXCEPT !.nomem = TRUE] @@ [err |-> ENOMEM]
        ELSE IF tm2interval(f[1]).rc # 0
          THEN none @@ [err |-> PGTYPES_INTVL_BAD_INTERVAL]
        ELSE [raw |-> p, month |-> tm2interval(f[1]).month,
              time |-> tm2interval(f[1]).time, ov |-> tm2interval(f[1]).ov,
              nomem |-> FALSE, err |-> 0]

\* how an interval text relates to the grammar and to the result's widths
IntervalTextClass(t) ==
    LET f == IntervalFields(t)
    IN  IF f = <<>> THEN "unrecognized"
        ELSE IF ~MonthsFit(f[1]) THEN "months_overflow"
        ELSE IF ~FitsInt64(IntervalUsecs(f[1])) THEN "usecs_overflow"
        ELSE "valid"

---------------------------------------------------------------------------
(* Sources/CLibECPG/shim.h: the parse shims.                               *)

\* mutant: errno is not cleared before the library call
errno_not_reset(e) == e

\* errno = 0; at the head of each parse shim
errno_reset(e) == 0

\* errno once the library call is over
errno_after(e, err) == IF err # 0 THEN err ELSE e

\* if (errno != 0)
date_parse_failed(e) == e # 0

\* if (errno == PGTYPES_INTVL_BAD_INTERVAL || !rawResult)
interval_parse_failed(e, raw) == e = PGTYPES_INTVL_BAD_INTERVAL \/ raw = NullPtr

\* mutant: errno compared with the date parser's error code
timestamp_parse_failed_wrong_code(e) == e = PGTYPES_DATE_BAD_DATE

\* if (errno == PGTYPES_TS_BAD_TIMESTAMP)
timestamp_parse_failed(e) == e = PGTYPES_TS_BAD_TIMESTAMP

\* mutant: the result is stored before errno is looked at
result_after_unconditional(old, failed, val) == val

\* the result object once a scalar parse shim returns: written in the else
\* branch only
result_after(old, failed, val) == IF failed THEN old ELSE val

\* result->time = rawResult->time; result->month = rawResult->month;
\* (the long month of the library's interval converted to int32_t: the
\* library keeps it in int's range)
interval_copy(old, time, month) == [time |-> time, month |-> month]

\* the record of one shim call: its name and text argument, errno as the
\* earlier calls left it, what it returned (ret, and ptr for a pointer into
\* the heap), whether an allocation of the library failed in it, and how
\* many interval structures it obtained and released
Call(op, text, ret, ptr, allocFailed, allocs, frees) ==
    [op |-> op, text |-> text, errnoBefore |-> errno, ret |-> ret, ptr |-> ptr,
     allocFailed |-> allocFailed, allocs |-> allocs, frees |-> frees]

\* _SwiftPQ_PGTYPES_date_from_cString(string, result)
SwiftPQ_PGTYPES_date_from_cString ==
    /\ status = "running"
    /\ \E t \in DateTexts :
         LET r  == PGTYPESdate_from_asc(t)
             e1 == errno_after(errno_reset(errno), r.err)
             failed == date_parse_failed(e1)
         IN  /\ errno' = e1
             /\ pgDate' = result_after(pgDate, failed, r.val)
             /\ last' = Call("date_from_cString", t,
                             IF failed THEN "NULL" ELSE "result",
                             NullPtr, FALSE, 0, 0)
    /\ UNCHANGED <<ymd, dayIn, dstep, intvl, ts, heap, owned, status>>
    /\ UNCHANGED signVars

\* _SwiftPQ_PGTYPES_interval_from_cString(string, result)
SwiftPQ_PGTYPES_interval_from_cString ==
    /\ status = "running"
    /\ \E t \in IntervalTexts, p \in AllocResults(heap) :
         LET r  == PGTYPESinterval_from_asc(t, p)
             e1 == errno_after(errno_reset(errno), r.err)
             failed == interval_parse_failed(e1, r.raw)
             got == IF r.raw # NullPtr THEN 1 ELSE 0
             h1 == Take(heap, r.raw, "interval")
             \* both branches release rawResult when it is not NULL
             h2 == IF r.raw # NullPtr THEN PGTYPESinterval_free(h1, r.raw) ELSE h1
         IN  \E o \in (IF r.ov THEN OverflowOutcomes ELSE {"exact"}) :
               IF o = "trap"
                 THEN \* the library's int64_t arithmetic trapped
                      /\ status' = "trapped"
                      /\ heap' = h1
                      /\ errno' = e1
                      /\ last' = Call("interval_from_cString", t, "none",
                                      NullPtr, FALSE, got, 0)
                      /\ UNCHANGED intvl
               ELSE IF ~failed /\ r.raw = NullPtr
                 THEN \* rawResult->time through a null pointer
                      /\ status' = "segv"
                      /\ heap' = h1
                      /\ errno' = e1
                      /\ last' = Call("interval_from_cString", t, "none",
                                      NullPtr, r.nomem, got, 0)
                      /\ UNCHANGED intvl
               ELSE /\ intvl' = (IF failed THEN intvl
                                 ELSE interval_copy(intvl, r.time, r.month))
                    /\ heap' = h2
                    /\ errno' = e1
                    /\ last' = Call("interval_from_cString", t,
                                    IF failed THEN "NULL" ELSE "result",
                                    NullPtr, r.nomem, got, got)
                    /\ UNCHANGED status
    /\ UNCHANGED <<pgDate, ymd, dayIn, dstep, ts, owned>>
    /\ UNCHANGED signVars

\* _SwiftPQ_PGTYPES_timestamp_from_cString(string, result)
SwiftPQ_PGTYPES_timestamp_from_cString ==
    /\ status = "running"
    /\ \E t \in TimestampTexts :
         LET r  == PGTYPEStimestamp_from_asc(t)
             e1 == errno_after(errno_reset(errno), r.err)
             failed == timestamp_parse_failed(e1)
         IN  /\ errno' = e1
             /\ ts' = result_after(ts, failed, r.val)
             /\ last' = Call("timestamp_from_cString", t,
                             IF failed THEN "NULL" ELSE "result",
                             NullPtr, FALSE, 0, 0)
    /\ UNCHANGED <<pgDate, ymd, dayIn, dstep, intvl, heap, owned, status>>
    /\ UNCHANGED signVars

---------------------------------------------------------------------------
(* Sources/CLibECPG/shim.h: the format shims.  Each library formatter      *)
(* returns a malloc'ed string, or NULL with errno ENOMEM.                  *)

\* what a store through a null pointer does in a user-space process
NullDerefOutcomes == {"segv"}

\* the value a format shim returns: the library's pointer, as it is
cString_returned(p) == p

\* the shim of a formatter that takes a scalar: lines 60-62 and 113-115
FormatScalar(op) ==
    /\ status = "running"
    /\ \E p \in AllocResults(heap) :
         /\ heap' = Take(heap, p, "cstring")
         /\ owned' = (owned \cup {cString_returned(p)}) \ {NullPtr}
         /\ errno' = (IF p = NullPtr THEN ENOMEM ELSE errno)
         /\ last' = Call(op, "", "cstring", cString_returned(p),
                         p = NullPtr, 0, 0)
    /\ UNCHANGED <<pgDate, ymd, dayIn, dstep, intvl, ts, status>>
    /\ UNCHANGED signVars

\* _SwiftPQ_PGTYPES_date_to_cString(pgDate)
SwiftPQ_PGTYPES_date_to_cString == FormatScalar("date_to_cString")

\* _SwiftPQ_PGTYPES_timestamp_to_cString(timestamp)
SwiftPQ_PGTYPES_timestamp_to_cString == FormatScalar("timestamp_to_cString")

\* _SwiftPQ_PGTYPES_interval_to_cString(intvl)
SwiftPQ_PGTYPES_interval_to_cString ==
    /\ status = "running"
    /\ \E pgInterval \in AllocResults(heap) :      \* PGTYPESinterval_new()
         IF pgInterval = NullPtr
           THEN \* pgInterval->time = intvl->time; through a null pointer
                /\ \E o \in NullDerefOutcomes : status' = o
                /\ errno' = ENOMEM
                /\ last' = Call("interval_to_cString", "", "none", NullPtr,
                                TRUE, 0, 0)
                /\ UNCHANGED <<heap, owned>>
           ELSE LET h1 == Take(heap, pgInterval, "interval")
                IN  \E cString \in AllocResults(h1) :  \* PGTYPESinterval_to_asc
                      /\ heap' = PGTYPESinterval_free(
                                   Take(h1, cString, "cstring"), pgInterval)
                      /\ owned' = (owned \cup {cString_returned(cString)})
                                    \ {NullPtr}
                      /\ errno' = (IF cString = NullPtr THEN ENOMEM ELSE errno)
                      /\ last' = Call("interval_to_cString", "", "cstring",
                                      cString_returned(cString),
                                      cString = NullPtr, 1, 1)
                      /\ UNCHANGED status
    /\ UNCHANGED <<pgDate, ymd, dayIn, dstep, intvl, ts>>
    /\ UNCHANGED signVars

\* _SwiftPQ_PGTYPES_free_cString(string), on a string the caller holds
SwiftPQ_PGTYPES_free_cString ==
    /\ status = "running"
    /\ \E p \in owned :
         /\ heap' = PGTYPESchar_free(heap, p)
         /\ owned' = owned \ {p}
         /\ last' = Call("free_cString", "", "void", p, FALSE, 0, 0)
    /\ UNCHANGED <<errno, pgDate, ymd, dayIn, dstep, intvl, ts, status>>
    /\ UNCHANGED signVars

---------------------------------------------------------------------------
(* Sources/CPostgreSQL/shim.c: the numeric sign predicates.                *)

\* pgtypes_numeric.h
NUMERIC_POS == 0
NUMERIC_NEG == 16384
NUMERIC_NAN == 49152

\* the sign tags a numeric value can carry
ValidSignTags == {NUMERIC_POS, NUMERIC_NEG, NUMERIC_NAN}

Flags ==
    { c + i : c \in ValidSignTags \cup {32768}, i \in (0 - FlagSpan) .. FlagSpan }

\* mutant: every flag other than NUMERIC_POS counts as negative
numericSignIsNegative_nonzero(flag) == flag # NUMERIC_POS

numericSignIsPositive(flag) == flag = NUMERIC_POS
numericSignIsNegative(flag) == flag = NUMERIC_NEG
numericSignIsNaN(flag)      == flag = NUMERIC_NAN

Asked(name) == \E a \in signSeen : a[1] = name

Answer(name, value) ==
    /\ ~Asked(name)
    /\ signSeen' = signSeen \cup {<<name, value>>}
    /\ UNCHANGED signFlag
    /\ UNCHANGED dateVars
    /\ UNCHANGED codecVars
    /\ UNCHANGED status

\* bool _SwiftPQ_numericSignIsPositive(int flag)
SwiftPQ_numericSignIsPositive == Answer("isPositive", numericSignIsPositive(signFlag))

\* bool _SwiftPQ_numericSignIsNegative(int flag)
SwiftPQ_numericSignIsNegative == Answer("isNegative", numericSignIsNegative(signFlag))

\* bool _SwiftPQ_numericSignIsNaN(int flag)
SwiftPQ_numericSignIsNaN == Answer("isNaN", numericSignIsNaN(signFlag))

---------------------------------------------------------------------------
(* Specifications.                                                         *)

NoCall ==
    [op |-> "none", text |-> "", errnoBefore |-> 0, ret |-> "void",
     ptr |-> NullPtr, allocFailed |-> FALSE, allocs |-> 0, frees |-> 0]

ZeroInterval == [time |-> ZeroUsecs, month |-> 0]

CodecInit ==
    /\ errno = 0
    /\ intvl = ZeroInterval
    /\ ts = ZeroUsecs
    /\ heap = [p \in Blocks |-> "free"]
    /\ owned = {}
    /\ last = NoCall

\* the codec calls of one thread, in any order
Init ==
    /\ CodecInit
    /\ status = "running"
    /\ pgDate = 0 /\ ymd = ZeroYMD /\ dayIn = 0 /\ dstep = "idle"
    /\ signFlag = 0 /\ signSeen = {}

Next ==
    \/ SwiftPQ_PGTYPES_date_from_cString
    \/ SwiftPQ_PGTYPES_interval_from_cString
    \/ SwiftPQ_PGTYPES_timestamp_from_cString
    \/ SwiftPQ_PGTYPES_date_to_cString
    \/ SwiftPQ_PGTYPES_timestamp_to_cString
    \/ SwiftPQ_PGTYPES_interval_to_cString
    \/ SwiftPQ_PGTYPES_free_cString

Spec == Init /\ [][Next]_vars

\* the date conversions, applied to a day count or to a calendar date
DateInit ==
    /\ CodecInit
    /\ status = "running"
    /\ pgDate = 0
    /\ \/ dstep = "have_day" /\ dayIn \in DayCounts /\ ymd = ZeroYMD
       \/ dstep = "have_ymd" /\ dayIn = 0 /\ ymd \in CalendarDates
    /\ signFlag = 0 /\ signSeen = {}

DateNext ==
    \/ SwiftPQ_PGTYPES_date_to_ymd
    \/ SwiftPQ_PGTYPES_date_from_ymd

DateSpec == DateInit /\ [][DateNext]_vars

\* the three sign predicates, applied to one flag
SignInit ==
    /\ CodecInit
    /\ status = "running"
    /\ pgDate = 0 /\ ymd = ZeroYMD /\ dayIn = 0 /\ dstep = "idle"
    /\ signFlag \in Flags /\ signSeen = {}

SignNext ==
    \/ SwiftPQ_numericSignIsPositive
    \/ SwiftPQ_numericSignIsNegative
    \/ SwiftPQ_numericSignIsNaN

SignSpec == SignInit /\ [][SignNext]_vars

---------------------------------------------------------------------------
(* The date conversions (DateSpec).                                        *)

DateLess(a, b) ==
    \/ a.year < b.year
    \/ a.year = b.year /\ a.month < b.month
    \/ a.year = b.year /\ a.month = b.month /\ a.day < b.day

\* the proleptic Gregorian dates of the day counts -2^31 and 2^31 - 1
FirstInt32Date == [year |-> 0 - 5877611, month |-> 6, day |-> 22]
LastInt32Date  == [year |-> 5881610, month |-> 7, day |-> 11]

\* the day count of the calendar date c fits in a signed 32-bit integer
DayCountFits(c) == ~DateLess(c, FirstInt32Date) /\ ~DateLess(LastInt32Date, c)

\* the day counts whose Julian day d + 2451545 lies in -32044 .. 2^31 - 1:
\* j2date's unsigned arithmetic does not wrap and date2j's int arithmetic
\* does not overflow
FirstRoundTripDay == 0 - (EpochJDate + 32044)
LastRoundTripDay  == MaxInt32 - EpochJDate

\* what date_from_ymd tells its caller besides *result: it returns void
DateConversionError == IF status = "trapped" THEN "trap" ELSE "none"

\* C1, as stated: for every signed 32-bit day count d, converting d with
\* date_to_ymd and the triple back with date_from_ymd yields d
C1_RoundTripAllInt32 ==
    (dstep = "done" /\ status = "running") => pgDate = dayIn

\* C1, amended: for every day count d with -2483589 <= d <= 2145032102
\* (Julian day -32044 .. 2^31 - 1), converting d with date_to_ymd and the
\* triple back with date_from_ymd returns normally and yields exactly d
C1_RoundTrip ==
    (dstep = "done" /\ dayIn >= FirstRoundTripDay /\ dayIn <= LastRoundTripDay)
      => (status = "running" /\ pgDate = dayIn)

C1_Witness ==
    /\ dstep = "done"
    /\ dayIn = FirstRoundTripDay
    /\ ymd = [year |-> 0 - 4800, month |-> 3, day |-> 1]
    /\ pgDate = dayIn

\* C2: date_from_ymd counts days from 2000-01-01: {2000,1,1} gives 0,
\* {2024,1,15} gives 8780, and a date of the date type's range (from
\* 4714-11-24 BC on) that lies before the epoch gives a negative day count
C2_Epoch ==
    dstep = "direct" =>
      /\ ymd = [year |-> 2000, month |-> 1, day |-> 1]
           => (status = "running" /\ pgDate = 0)
      /\ ymd = [year |-> 2024, month |-> 1, day |-> 15]
           => (status = "running" /\ pgDate = 8780)
      /\ (ValidDate(ymd) /\ ymd.year >= 0 - 4713 /\ ymd.year < 2000)
           => (status = "running" /\ pgDate < 0)

C2_Witness ==
    /\ dstep = "direct"
    /\ ymd = [year |-> 2024, month |-> 1, day |-> 15]
    /\ pgDate = 8780

\* C4: a valid calendar date whose day count does not fit in 32 bits is
\* reported as a RangeError by date_from_ymd, never returned as a wrapped
\* day count
C4_RangeError ==
    (dstep = "direct" /\ ValidDate(ymd) /\ ~DayCountFits(ymd))
      => DateConversionError = "RangeError"

---------------------------------------------------------------------------
(* The numeric sign predicates (SignSpec).                                 *)

SignTrue == {a \in signSeen : a[2]}

\* C3: the answers of isPositive, isNegative and isNaN for one flag are
\* pairwise disjoint (at most one is true for any integer flag), and for a
\* valid sign tag exactly one of the three is true
C3_SignDisjoint ==
    /\ Cardinality(SignTrue) <= 1
    /\ (signFlag \in ValidSignTags /\ Cardinality(signSeen) = 3)
         => Cardinality(SignTrue) = 1

C3_Witness ==
    /\ signFlag = NUMERIC_NAN
    /\ signSeen = {<<"isPositive", FALSE>>, <<"isNegative", FALSE>>,
                   <<"isNaN", TRUE>>}

---------------------------------------------------------------------------
(* The codec calls (Spec).                                                 *)

ParseOps == {"date_from_cString", "interval_from_cString", "timestamp_from_cString"}
FormatOps == {"date_to_cString", "interval_to_cString", "timestamp_to_cString"}

EpochText == "2000-01-01 00:00:00"

\* the error a caller of timestamp_from_cString can tell from its return
\* value: "Returns NULL if string is invalid for timestamp"
TimestampError(ret) == IF ret = "NULL" THEN "bad_timestamp" ELSE "none"

C6_IntervalOverflowFails ==
    (last.op = "interval_from_cString" /\ status = "running") =>
      /\ IntervalTextClass(last.text) # "valid" => last.ret = "NULL"
      /\ last.ret = "result" =>
           /\ intvl.time = IntervalUsecs(IntervalFields(last.text)[1])
           /\ intvl.month = IntervalFields(last.text)[1].year * 12
                              + IntervalFields(last.text)[1].mon

\* C7: a parse shim returns NULL or the result pointer; a step in which it
\* returns NULL (or does not return) leaves every field of the caller's
\* result object as it was, and a step in which it returns the result
\* pointer writes every field of it from the parsed value
C7_Step ==
    /\ last'.op = "date_from_cString" =>
         /\ last'.ret \in {"NULL", "result"}
         /\ last'.ret = "NULL" => pgDate' = pgDate
         /\ last'.ret = "result" => pgDate' = PGTYPESdate_from_asc(last'.text).val
         /\ intvl' = intvl /\ ts' = ts
    /\ last'.op = "interval_from_cString" =>
         /\ last'.ret \in {"NULL", "result", "none"}
         /\ last'.ret = "none" <=> status' # "running"
         /\ last'.ret # "result" => intvl' = intvl
         /\ last'.ret = "result" =>
              /\ intvl'.time = tm2interval(IntervalFields(last'.text)[1]).time
              /\ intvl'.month = tm2interval(IntervalFields(last'.text)[1]).month
         /\ pgDate' = pgDate /\ ts' = ts
    /\ last'.op = "timestamp_from_cString" =>
         /\ last'.ret \in {"NULL", "result"}
         /\ last'.ret = "NULL" => ts' = ts
         /\ last'.ret = "result" => ts' = PGTYPEStimestamp_from_asc(last'.text).val
         /\ pgDate' = pgDate /\ intvl' = intvl

C7_NoPartialMutation == [][C7_Step]_vars

\* a failed interval parse after a successful one: the object keeps the
\* fields of the earlier success
C7_Witness ==
    /\ last.op = "interval_from_cString"
    /\ last.ret = "NULL"
    /\ intvl.month = 14
    /\ pgDate = 8780

LiveBlocks(kind) == {p \in Blocks : heap[p] = kind}

\* C8, as stated: every native allocation obtained during a codec call is
\* released before the call returns; no call returns with an allocation the
\* caller has to release
C8_NothingOutlivesCall ==
    status = "running" => (owned = {} /\ \A p \in Blocks : heap[p] = "free")

\* C8, amended: the interval structure obtained during a codec call is
\* released exactly once before the call returns, on every path that
\* returns; the string buffer of a formatting call is not released by the
\* call: it is returned to the caller, who holds it until it releases it
\* with free_cString, and no other block is live
C8_ScratchReleased ==
    status = "running" =>
      /\ LiveBlocks("interval") = {}
      /\ last.allocs = last.frees
      /\ LiveBlocks("cstring") = owned
      /\ (last.op \in FormatOps /\ last.ptr # NullPtr)
           => (last.ptr \in owned /\ heap[last.ptr] = "cstring")
      /\ last.op = "free_cString" => heap[last.ptr] = "free"

C8_Witness ==
    /\ status = "running"
    /\ last.op = "interval_to_cString"
    /\ last.allocs = 1 /\ last.frees = 1
    /\ last.ptr # NullPtr
    /\ last.ptr \in owned

\* C9: when an allocation fails during a format call the call surfaces an
\* AllocationFailure: it never dereferences the missing allocation and never
\* returns the missing buffer as a formatted string
C9_AllocationFailure ==
    (last.op \in FormatOps /\ last.allocFailed) =>
      /\ status # "segv"
      /\ ~(last.ret = "cstring" /\ last.ptr = NullPtr)

\* C10: whatever errno the earlier calls left, a date or timestamp parse
\* succeeds exactly on the texts the parser accepts, with the value of the
\* text (the epoch text gives timestamp 0), and an interval parse succeeds
\* whenever the parser accepts the text and obtains its result
C10_Independent ==
    /\ last.op = "date_from_cString" =>
         /\ last.ret = "result" <=> PGTYPESdate_from_asc(last.text).err = 0
         /\ last.ret = "result" => pgDate = PGTYPESdate_from_asc(last.text).val
    /\ last.op = "timestamp_from_cString" =>
         /\ last.ret = "result" <=> PGTYPEStimestamp_from_asc(last.text).err = 0
         /\ last.ret = "result" => ts = PGTYPEStimestamp_from_asc(last.text).val
         /\ last.text = EpochText => (last.ret = "result" /\ ts = ZeroUsecs)
    /\ (last.op = "interval_from_cString" /\ IntervalTextClass(last.text) = "valid")
         => /\ last.ret = "result" <=> ~last.allocFailed
            /\ last.ret = "result" => intvl.month = tm2interval(IntervalFields(last.text)[1]).month

\* the epoch text parsed right after a failed interval parse
C10_Witness ==
    /\ last.op = "timestamp_from_cString"
    /\ last.text = EpochText
    /\ last.errnoBefore = PGTYPES_INTVL_BAD_INTERVAL
    /\ last.ret = "result"
    /\ ts = ZeroUsecs

=============================================================================
